---- MODULE Spec2Model ----
(***************************************************************************)
(* A model of modello.py: symbolic model classes (ModelloMetaNamespace,    *)
(* ModelloMeta) and the construction pipeline of Modello.__init__.         *)
(*                                                                         *)
(* The symbolic algebra is sympy's.  Expressions are kept in the canonical *)
(* form sympy gives a polynomial with integer coefficients whose only      *)
(* nonlinear monomials are squares: a constant, a coefficient per symbol   *)
(* and a coefficient per squared symbol.  Every substitution the program   *)
(* performs maps symbols to symbols, so subs() is a renaming.              *)
(***************************************************************************)
EXTENDS Integers, Sequences, FiniteSets, TLC

(***************************************************************************)
(* Bounds of the model.                                                    *)
(***************************************************************************)
\* caller-supplied numbers are drawn from 0..MaxVal
MaxVal == 1
\* a caller's value map (and a nested partial map) names at most MaxSupplied keys
MaxSupplied == 2
\* number of declarations in the body of the class statement that is explored
MaxDecl == 2

(***************************************************************************)
(* Python dicts: insertion-ordered, a sequence of [k, v] with unique keys. *)
(***************************************************************************)
EmptyDict == <<>>

DictKeys(d) == {d[i].k : i \in DOMAIN d}

DictHas(d, key) == \E i \in DOMAIN d : d[i].k = key

DictGet(d, key) == d[CHOOSE i \in DOMAIN d : d[i].k = key].v

\* d[key] = val: an existing key keeps its position
DictPut(d, key, val) ==
    IF DictHas(d, key)
    THEN [i \in DOMAIN d |-> IF d[i].k = key THEN [k |-> key, v |-> val] ELSE d[i]]
    ELSE Append(d, [k |-> key, v |-> val])

RECURSIVE DictUpdate(_, _)
\* d.update(e)
DictUpdate(d, e) ==
    IF e = <<>> THEN d
    ELSE DictUpdate(DictPut(d, Head(e).k, Head(e).v), Tail(e))

(***************************************************************************)
(* sympy: Dummy symbols and expressions.                                   *)
(* A Dummy is equal only to itself: it carries its name and the value of   *)
(* the global counter at its creation (dummy_index).                       *)
(***************************************************************************)
\* InstanceDummy(name): an unbound dummy
InstanceDummy(name, index) == [name |-> name, id |-> index, bound |-> FALSE]

\* BoundInstanceDummy(name)
BoundInstanceDummy(name, index) == [name |-> name, id |-> index, bound |-> TRUE]

\* a bound() that does not prefix the name of the model
bound_unprefixed(dummy, model_name, index) == BoundInstanceDummy(dummy.name, index)

\* InstanceDummy.bound(model_name)
bound(dummy, model_name, index) ==
    BoundInstanceDummy(model_name \o "_" \o dummy.name, index)

NoTerms == [d \in {} |-> 0]

\* a sympy Integer
Num(n) == [c |-> n, lin |-> NoTerms, sq |-> NoTerms]

\* a symbol as an expression
Sym(d) == [c |-> 0, lin |-> (d :> 1), sq |-> NoTerms]

\* d**2
Square(d) == [c |-> 0, lin |-> NoTerms, sq |-> (d :> 1)]

IsSym(e) == /\ e.c = 0
            /\ e.sq = NoTerms
            /\ \E d \in DOMAIN e.lin : e.lin = (d :> 1)

\* the symbol of an expression that is a bare symbol
SymOf(e) == CHOOSE d \in DOMAIN e.lin : TRUE

DropZero(f) == [d \in {x \in DOMAIN f : f[x] # 0} |-> f[d]]

AddTerms(f, g) ==
    DropZero([d \in DOMAIN f \cup DOMAIN g |->
                (IF d \in DOMAIN f THEN f[d] ELSE 0)
              + (IF d \in DOMAIN g THEN g[d] ELSE 0)])

\* e1 + e2
Add(e1, e2) == [c |-> e1.c + e2.c,
                lin |-> AddTerms(e1.lin, e2.lin),
                sq |-> AddTerms(e1.sq, e2.sq)]

\* expr.free_symbols
free_symbols(e) == DOMAIN e.lin \cup DOMAIN e.sq

RECURSIVE SumOver(_, _)
SumOver(f, S) ==
    IF S = {} THEN 0
    ELSE LET d == CHOOSE x \in S : TRUE
         IN f[d] + SumOver(f, S \ {d})

\* the image of a symbol under a substitution dict (symbol -> symbol)
Image(m, d) == IF DictHas(m, d) THEN DictGet(m, d) ELSE d

SubsTerms(f, m) ==
    DropZero([w \in {Image(m, d) : d \in DOMAIN f} |->
                SumOver(f, {d \in DOMAIN f : Image(m, d) = w})])

\* expr.subs(m) for a dict m of symbols to symbols
subs(e, m) == [c |-> e.c, lin |-> SubsTerms(e.lin, m), sq |-> SubsTerms(e.sq, m)]

RECURSIVE EvalTerms(_, _, _, _)
EvalTerms(f, S, s, pow) ==
    IF S = {} THEN 0
    ELSE LET d == CHOOSE x \in S : TRUE
         IN f[d] * (IF pow = 2 THEN s[d] * s[d] ELSE s[d])
            + EvalTerms(f, S \ {d}, s, pow)

\* the number an expression denotes under an assignment s of numbers to
\* (at least) its free symbols
Eval(e, s) == e.c + EvalTerms(e.lin, DOMAIN e.lin, s, 1)
                  + EvalTerms(e.sq, DOMAIN e.sq, s, 2)

(***************************************************************************)
(* Python values that travel through class bodies and value maps.          *)
(***************************************************************************)
PyInt(n) == [t |-> "int", n |-> n]
PyBasic(e) == [t |-> "basic", e |-> e]
PyNone == [t |-> "none"]
PyObj == [t |-> "obj"]
PyDict(d) == [t |-> "dict", d |-> d]

\* isinstance(value, Basic)
IsBasic(v) == v.t = "basic"

\* sympy.simplify(value): sympifies a Python number, leaves a canonical
\* expression as it is
simplify(v) == IF v.t = "int" THEN Num(v.n) ELSE v.e

(***************************************************************************)
(* ModelloMetaNamespace: the namespace a class body is executed in.        *)
(* Operations that create dummies thread the global dummy counter: their   *)
(* argument and result carry it as `count'.  A result's `raised' is the    *)
(* exception that left the operation, "" when none did.                    *)
(***************************************************************************)
PyClass(cls) == [t |-> "cls", cls |-> cls]
PyProxy(name, attrs) == [t |-> "proxy", cls |-> name, attrs |-> attrs]

\* isinstance(value, type) and ModelloSentinelClass in value.mro()
IsModelloClass(v) == v.t = "cls" /\ v.cls.modello

\* the attributes of ModelloMetaNamespace set by super().__init__() and the
\* assignments that precede the merge of the bases
NewNamespace(name) ==
    [name |-> name,
     attrs |-> EmptyDict,
     dummies |-> EmptyDict,
     other_attrs |-> EmptyDict,
     nested_models |-> EmptyDict,
     dummy_overrides |-> EmptyDict,
     items |-> EmptyDict]

RECURSIVE OverrideDummies(_, _, _)
\* the loop over self.dummies.keys() & parent_namespace.dummies.keys(),
\* taken in the order `order' the set happens to be iterated in
OverrideDummies(ns, parent, order) ==
    IF order = <<>> THEN ns
    ELSE LET attr == Head(order)
             override_dummy == DictGet(parent.dummies, attr)
             base_dummy == DictGet(ns.dummies, attr)
         IN OverrideDummies(
                [ns EXCEPT !.dummies = DictPut(@, attr, override_dummy),
                           !.dummy_overrides = DictPut(@, base_dummy, override_dummy)],
                parent, Tail(order))

\* a merge that leaves the merged expressions as the bases wrote them
KeepMergedAttrs(ns) == ns

\* attrs[attr] = value.subs(self.dummy_overrides) for every attr
SubstituteOverrides(ns) ==
    IF ns.dummy_overrides = EmptyDict THEN ns
    ELSE [ns EXCEPT !.attrs =
            [i \in DOMAIN @ |-> [k |-> @[i].k, v |-> subs(@[i].v, ns.dummy_overrides)]]]

\* one iteration of `for base in bases'
MergeBase(ns, base, order) ==
    IF ~base.modello THEN ns
    ELSE LET parent == base.ns
             merged ==
                IF parent.items = EmptyDict THEN ns
                ELSE LET o == OverrideDummies(ns, parent, order)
                     IN [o EXCEPT
                           !.attrs = DictUpdate(@, parent.attrs),
                           !.dummies = DictUpdate(@, parent.dummies),
                           !.other_attrs = DictUpdate(@, parent.other_attrs),
                           !.nested_models = DictUpdate(@, parent.nested_models),
                           !.items = DictUpdate(@, parent.items)]
         IN SubstituteOverrides(merged)

\* the attributes both namespaces give a dummy, in the order of ns.dummies
CommonDummies(ns, base) ==
    IF ~base.modello THEN <<>>
    ELSE SelectSeq([i \in DOMAIN ns.dummies |-> ns.dummies[i].k],
                   LAMBDA a : DictHas(base.ns.dummies, a))

RECURSIVE MergeBases(_, _)
\* ModelloMetaNamespace.__init__(name, bases), the loop over the bases
MergeBases(ns, bases) ==
    IF bases = <<>> THEN ns
    ELSE MergeBases(MergeBase(ns, Head(bases), CommonDummies(ns, Head(bases))),
                    Tail(bases))

RECURSIVE ProxyDummies(_, _, _, _, _)
\* for attr_name, class_dummy in model_cls._modello_namespace.dummies.items()
ProxyDummies(key, todo, attrs, dummy_map, count) ==
    IF todo = <<>> THEN [attrs |-> attrs, dummy_map |-> dummy_map, count |-> count]
    ELSE LET attr_name == Head(todo).k
             class_dummy == Head(todo).v
             proxy_dummy == InstanceDummy(key \o "_" \o class_dummy.name, count)
         IN ProxyDummies(key, Tail(todo),
                         DictPut(attrs, attr_name, Sym(proxy_dummy)),
                         DictPut(dummy_map, class_dummy, proxy_dummy),
                         count + 1)

RECURSIVE ProxyChildMap(_, _, _, _)
\* for child_dummy, child_proxy in child_map.items()
ProxyChildMap(key, child_map, dummy_map, count) ==
    IF child_map = <<>> THEN [dummy_map |-> dummy_map, count |-> count]
    ELSE LET child_proxy == Head(child_map).v
             proxy_dummy == InstanceDummy(key \o "_" \o child_proxy.name, count)
         IN ProxyChildMap(key, Tail(child_map),
                          DictPut(dummy_map, child_proxy, proxy_dummy),
                          count + 1)

RECURSIVE ProxyNested(_, _, _, _)
\* for _nested_attr, (_, child_map) in model_cls._modello_nested_models.items()
ProxyNested(key, nested, dummy_map, count) ==
    IF nested = <<>> THEN [dummy_map |-> dummy_map, count |-> count]
    ELSE LET r == ProxyChildMap(key, Head(nested).v.map, dummy_map, count)
         IN ProxyNested(key, Tail(nested), r.dummy_map, r.count)

RECURSIVE ProxyFormulas(_, _, _, _)
\* for attr_name, expr in model_cls._modello_namespace.attrs.items():
\*     if attr_name not in model_cls._modello_namespace.dummies: ...
ProxyFormulas(todo, child_dummies, attrs, dummy_map) ==
    IF todo = <<>> THEN attrs
    ELSE ProxyFormulas(Tail(todo), child_dummies,
            IF DictHas(child_dummies, Head(todo).k) THEN attrs
            ELSE DictPut(attrs, Head(todo).k, subs(Head(todo).v, dummy_map)),
            dummy_map)

\* the nested-model branch of __setitem__: the proxy object and the dummy
\* mapping of `key = model_cls'
MakeProxy(key, model_cls, count) ==
    LET p1 == ProxyDummies(key, model_cls.ns.dummies, EmptyDict, EmptyDict, count)
        p2 == ProxyNested(key, model_cls.nested_models, p1.dummy_map, p1.count)
        attrs == ProxyFormulas(model_cls.ns.attrs, model_cls.ns.dummies,
                               p1.attrs, p2.dummy_map)
    IN [proxy |-> PyProxy(model_cls.name \o "Proxy", attrs),
        dummy_map |-> p2.dummy_map,
        count |-> p2.count]

Raise(ns, count, exc) == [ns |-> ns, count |-> count, raised |-> exc]

\* the branch of __setitem__ for an expression
SetExpression(ns, key, value, count) ==
    IF DictHas(ns.items, key) /\ ~DictHas(ns.dummies, key)
    THEN Raise(ns, count, "KeyError")
    ELSE LET fresh == ~DictHas(ns.items, key) /\ ~IsSym(value.e)
             dummy == IF DictHas(ns.items, key) THEN DictGet(ns.dummies, key)
                      ELSE IF IsSym(value.e) THEN SymOf(value.e)
                      ELSE InstanceDummy(key, count)
         IN [ns |-> [ns EXCEPT
                       !.attrs = DictPut(@, key, subs(simplify(value), ns.dummy_overrides)),
                       !.dummies = DictPut(@, key, dummy),
                       !.items = DictPut(@, key, PyBasic(Sym(dummy)))],
             count |-> IF fresh THEN count + 1 ELSE count,
             raised |-> ""]

\* a nested-model branch that keeps the proxy out of other_attrs
SetNestedOnly(ns, key, value, count) ==
    LET p == MakeProxy(key, value.cls, count)
    IN [ns |-> [ns EXCEPT
                  !.nested_models = DictPut(@, key, [cls |-> value.cls.name,
                                                    map |-> p.dummy_map]),
                  !.items = DictPut(@, key, p.proxy)],
        count |-> p.count,
        raised |-> ""]

\* the branch of __setitem__ for a model class
SetNested(ns, key, value, count) ==
    LET p == MakeProxy(key, value.cls, count)
    IN [ns |-> [ns EXCEPT
                  !.nested_models = DictPut(@, key, [cls |-> value.cls.name,
                                                    map |-> p.dummy_map]),
                  !.other_attrs = DictPut(@, key, p.proxy),
                  !.items = DictPut(@, key, p.proxy)],
        count |-> p.count,
        raised |-> ""]

\* the branch of __setitem__ for any other value
SetOpaque(ns, key, value, count) ==
    [ns |-> [ns EXCEPT !.other_attrs = DictPut(@, key, value),
                       !.items = DictPut(@, key, value)],
     count |-> count,
     raised |-> ""]

\* a __setitem__ without the check of `key in self.attrs'
setitem_unchecked(ns, key, value, count) ==
    IF IsBasic(value) THEN SetExpression(ns, key, value, count)
    ELSE IF IsModelloClass(value) THEN SetNested(ns, key, value, count)
    ELSE SetOpaque(ns, key, value, count)

\* ModelloMetaNamespace.__setitem__(key, value)
setitem(ns, key, value, count) ==
    IF IsBasic(value) THEN SetExpression(ns, key, value, count)
    ELSE IF DictHas(ns.attrs, key) THEN Raise(ns, count, "ValueError")
    ELSE IF IsModelloClass(value) THEN SetNested(ns, key, value, count)
    ELSE SetOpaque(ns, key, value, count)

RECURSIVE ClassConstraints(_, _, _)
\* {dummy: attrs[attr] for attr, dummy in dummies.items()
\*         if attrs[attr] is not dummy}: a dict, keyed by the dummy
ClassConstraints(todo, attrs, constraints) ==
    IF todo = <<>> THEN constraints
    ELSE LET attr == Head(todo).k
             dummy == Head(todo).v
         IN ClassConstraints(Tail(todo), attrs,
                IF DictGet(attrs, attr) # Sym(dummy)
                THEN DictPut(constraints, dummy, DictGet(attrs, attr))
                ELSE constraints)

\* _modello_class_constraints of ModelloMeta.__new__
class_constraints(ns) == ClassConstraints(ns.dummies, ns.attrs, EmptyDict)

(***************************************************************************)
(* Class bodies.  A declaration `key = value' names its value by the way   *)
(* the body computes it from the names the namespace holds so far:         *)
(*   Fresh(name)      InstanceDummy(name)                                  *)
(*   Sum(refs, n)     ref1 + ref2 + ... + n                                *)
(*   Squared(ref)     ref * ref                                            *)
(*   Global(name)     the class the module binds to `name'                 *)
(*   Value(v)         any other Python value                               *)
(* where a ref is <<name>> or, through a nested model's proxy,             *)
(* <<name, attribute>>.                                                    *)
(***************************************************************************)
Fresh(name) == [d |-> "fresh", name |-> name]
Sum(refs, n) == [d |-> "sum", refs |-> refs, c |-> n]
Squared(ref) == [d |-> "square", ref |-> ref]
Global(name) == [d |-> "global", name |-> name]
Value(v) == [d |-> "value", value |-> v]
Decl(key, v) == [key |-> key, v |-> v]

\* the expression a name of the class body denotes: self[name], or
\* getattr(self[name], attribute) on a proxy
Lookup(ns, ref) ==
    LET first == DictGet(ns.items, ref[1])
    IN IF Len(ref) = 1 THEN first.e ELSE DictGet(first.attrs, ref[2])

RECURSIVE SumRefs(_, _)
SumRefs(ns, refs) ==
    IF refs = <<>> THEN Num(0)
    ELSE Add(Lookup(ns, Head(refs)), SumRefs(ns, Tail(refs)))

\* the Python value of the right-hand side of `key = value', and the dummy
\* counter after its evaluation; module maps the names of the classes
\* declared so far to their class objects
DeclValue(ns, v, count, module) ==
    CASE v.d = "fresh" ->
            [value |-> PyBasic(Sym(InstanceDummy(v.name, count))), count |-> count + 1]
      [] v.d = "sum" ->
            [value |-> PyBasic(Add(SumRefs(ns, v.refs), Num(v.c))), count |-> count]
      [] v.d = "square" ->
            [value |-> PyBasic(Square(SymOf(Lookup(ns, v.ref)))), count |-> count]
      [] v.d = "global" ->
            [value |-> PyClass(module[v.name]), count |-> count]
      [] OTHER ->
            [value |-> v.value, count |-> count]

\* executes `key = value' of a class body
Declare(ns, decl, count, module) ==
    LET rhs == DeclValue(ns, decl.v, count, module)
    IN setitem(ns, decl.key, rhs.value, rhs.count)

RECURSIVE ClassBody(_, _, _, _)
\* executes the declarations of a class body in order, up to the first raise
ClassBody(ns, decls, count, module) ==
    IF decls = <<>> THEN [ns |-> ns, count |-> count, raised |-> ""]
    ELSE LET r == Declare(ns, Head(decls), count, module)
         IN IF r.raised # "" THEN r
            ELSE ClassBody(r.ns, Tail(decls), r.count, module)

\* the names Python itself assigns at the start of every class body
Preamble == <<Decl("__module__", Value(PyObj)), Decl("__qualname__", Value(PyObj))>>

\* ModelloMeta.__prepare__, the class body, ModelloMeta.__new__
NewClass(name, bases, decls, count, module) ==
    LET r == ClassBody(MergeBases(NewNamespace(name), bases), Preamble \o decls,
                       count, module)
    IN [name |-> name,
        modello |-> TRUE,
        ns |-> r.ns,
        class_constraints |-> class_constraints(r.ns),
        nested_models |-> r.ns.nested_models,
        count |-> r.count,
        raised |-> r.raised]

(***************************************************************************)
(* The model classes the constructions are run on: those of                *)
(* test_modello.py, one with a nonlinear formula, one that redeclares an   *)
(* inherited attribute and one with two names for one dummy.               *)
(***************************************************************************)
ClassStatement(name, bases, decls) == [name |-> name, bases |-> bases, decls |-> decls]

\* class Modello(ModelloSentinelClass, metaclass=ModelloMeta)
Modello ==
    ClassStatement("Modello", <<"ModelloSentinelClass">>,
                   <<Decl("_modello_namespace", Value(PyObj)),
                     Decl("__init__", Value(PyObj))>>)

\* test_no_constraints
ExampleClass ==
    ClassStatement("ExampleClass", <<"Modello">>, <<Decl("thing", Fresh("thing"))>>)

\* test_multiple_inheritance_expr_conflict
ExampleA ==
    ClassStatement("ExampleA", <<"Modello">>,
                   <<Decl("conflicted", Fresh("conflicted")),
                     Decl("a", Sum(<< <<"conflicted">> >>, 0))>>)

ExampleB ==
    ClassStatement("ExampleB", <<"Modello">>,
                   <<Decl("conflicted", Fresh("conflicted")),
                     Decl("b", Sum(<< <<"conflicted">> >>, 0)),
                     Decl("b1", Sum(<< <<"conflicted">> >>, 1))>>)

ExampleC == ClassStatement("ExampleC", <<"ExampleA", "ExampleB">>, <<>>)

\* test_nested_models_dict: Child, Parent
Child ==
    ClassStatement("Child", <<"Modello">>,
                   <<Decl("a", Fresh("a")),
                     Decl("b", Fresh("b")),
                     Decl("c", Sum(<< <<"a">>, <<"b">> >>, 0))>>)

Parent ==
    ClassStatement("Parent", <<"Modello">>,
                   <<Decl("child", Global("Child")),
                     Decl("d", Fresh("d")),
                     Decl("e", Sum(<< <<"child", "c">>, <<"d">> >>, 0))>>)

\* test_helper_parse_nested_values: a nested model of one free attribute
Holder ==
    ClassStatement("Holder", <<"Modello">>, <<Decl("child", Global("ExampleClass"))>>)

\* test_nested_multiple_levels, with Parent as the branch and Child as the leaf
Tree ==
    ClassStatement("Tree", <<"Modello">>,
                   <<Decl("left", Global("Parent")),
                     Decl("whole", Sum(<< <<"left", "e">> >>, 1))>>)

\* a formula that is not linear
SquareModel ==
    ClassStatement("SquareModel", <<"Modello">>,
                   <<Decl("a", Fresh("a")),
                     Decl("s", Squared(<<"a">>))>>)

\* a class whose `thing' is not an expression
Labelled ==
    ClassStatement("Labelled", <<"Modello">>, <<Decl("thing", Value(PyObj))>>)

\* a subclass that declares the attribute it inherits once more
Redeclared ==
    ClassStatement("Redeclared", <<"ExampleClass">>, <<Decl("thing", Fresh("thing"))>>)

\* two names of one dummy, both then assigned a formula:
\*     x = InstanceDummy("x"); y = x; x = x + x; y = x + x + x
Shared ==
    ClassStatement("Shared", <<"Modello">>,
                   <<Decl("x", Fresh("x")),
                     Decl("y", Sum(<< <<"x">> >>, 0)),
                     Decl("x", Sum(<< <<"x">>, <<"x">> >>, 0)),
                     Decl("y", Sum(<< <<"x">>, <<"x">>, <<"x">> >>, 0))>>)

\* the class statements of the module, in the order they are executed
ClassStatements ==
    <<Modello, ExampleClass, ExampleA, ExampleB, ExampleC, Child, Parent, Holder,
      Tree, SquareModel, Labelled, Redeclared, Shared>>

\* the classes constructions are called on
ClassNames == {"ExampleClass", "ExampleA", "ExampleC", "Child", "Parent",
               "Holder", "Tree", "SquareModel", "Redeclared", "Shared"}

\* class ModelloSentinelClass: the one base that has no _modello_namespace
ModelloSentinelClass == [name |-> "ModelloSentinelClass", modello |-> FALSE]

RECURSIVE Import(_, _, _)
\* executes the class statements in order: the class objects by name, and
\* the dummy counter, once the module that declares them is imported
Import(statements, module, count) ==
    IF statements = <<>> THEN [module |-> module, count |-> count]
    ELSE LET st == Head(statements)
             bases == [i \in DOMAIN st.bases |->
                         IF st.bases[i] = "ModelloSentinelClass"
                         THEN ModelloSentinelClass ELSE module[st.bases[i]]]
             cls == NewClass(st.name, bases, st.decls, count, module)
         IN Import(Tail(statements), module @@ (st.name :> cls), cls.count)

Library == Import(ClassStatements, <<>>, 0)

\* the class objects are state of the program: they are built once, when
\* their bodies run, and read by every construction
VARIABLE classes

Class(name) == classes[name]

(***************************************************************************)
(* Modello: the helpers of __init__, as functions of their arguments.      *)
(* `cls' is the class record the classmethod is called on.                 *)
(***************************************************************************)
\* a Modello instance: what setattr() left on it
Instance(cls, name, attrs, instance_dummies, instance_constraints, constraints) ==
    [t |-> "inst", cls |-> cls, name |-> name, attrs |-> attrs,
     instance_dummies |-> instance_dummies,
     instance_constraints |-> instance_constraints,
     constraints |-> constraints]

\* isinstance(val, Modello)
IsModello(v) == v.t = "inst"

RECURSIVE parse_dicts_as_unknown(_, _, _, _)
\* a _parse_nested_values that takes a dict for a value of unknown shape
parse_dicts_as_unknown(cls, value_map, nested, remaining) ==
    IF value_map = <<>> THEN [nested |-> nested, remaining |-> remaining]
    ELSE LET key == Head(value_map).k
             val == Head(value_map).v
         IN IF DictHas(cls.nested_models, key)
            THEN parse_dicts_as_unknown(cls, Tail(value_map),
                    DictPut(nested, key,
                            IF IsModello(val) THEN val ELSE PyDict(EmptyDict)),
                    remaining)
            ELSE parse_dicts_as_unknown(cls, Tail(value_map), nested,
                                        DictPut(remaining, key, val))

RECURSIVE parse_nested_values(_, _, _, _)
\* Modello._parse_nested_values(value_map), called with empty nested and
\* remaining
parse_nested_values(cls, value_map, nested, remaining) ==
    IF value_map = <<>> THEN [nested |-> nested, remaining |-> remaining]
    ELSE LET key == Head(value_map).k
             val == Head(value_map).v
         IN IF DictHas(cls.nested_models, key)
            THEN parse_nested_values(cls, Tail(value_map),
                    DictPut(nested, key,
                            IF IsModello(val) THEN val
                            ELSE IF val.t = "dict" THEN val
                            ELSE PyDict(EmptyDict)),
                    remaining)
            ELSE parse_nested_values(cls, Tail(value_map), nested,
                                     DictPut(remaining, key, val))

RECURSIVE BindDummies(_, _, _, _)
\* {class_dummy: class_dummy.bound(name) for class_dummy in dummies.values()}
BindDummies(todo, name, instance_dummies, count) ==
    IF todo = <<>> THEN [instance_dummies |-> instance_dummies, count |-> count]
    ELSE BindDummies(Tail(todo), name,
                     DictPut(instance_dummies, Head(todo).v,
                             bound(Head(todo).v, name, count)),
                     count + 1)

RECURSIVE BindMapping(_, _, _, _, _)
\* for class_dummy, proxy_dummy in mapping.items()
BindMapping(mapping, name, instance_dummies, dummy_map, count) ==
    IF mapping = <<>>
    THEN [instance_dummies |-> instance_dummies, dummy_map |-> dummy_map, count |-> count]
    ELSE LET class_dummy == Head(mapping).k
             proxy_dummy == Head(mapping).v
             b == bound(proxy_dummy, name, count)
         IN BindMapping(Tail(mapping), name,
                        DictPut(instance_dummies, proxy_dummy, b),
                        DictPut(dummy_map, class_dummy, b),
                        count + 1)

RECURSIVE BindNested(_, _, _, _, _)
\* for attr, (_, mapping) in cls._modello_nested_models.items()
BindNested(nested, name, instance_dummies, nested_dummy_map, count) ==
    IF nested = <<>>
    THEN [instance_dummies |-> instance_dummies,
          nested_dummy_map |-> nested_dummy_map, count |-> count]
    ELSE LET r == BindMapping(Head(nested).v.map, name, instance_dummies, EmptyDict, count)
         IN BindNested(Tail(nested), name, r.instance_dummies,
                       DictPut(nested_dummy_map, Head(nested).k, r.dummy_map),
                       r.count)

\* Modello._create_instance_dummies(name)
create_instance_dummies(cls, name, count) ==
    LET own == BindDummies(cls.ns.dummies, name, EmptyDict, count)
    IN BindNested(cls.nested_models, name, own.instance_dummies, EmptyDict, own.count)

\* simplify(value) raises SympifyError on what is not a number or an expression
Sympifiable(v) == v.t \in {"int", "basic"}

\* getattr(obj, attr) on a Modello instance: the instance attribute, else the
\* attribute of its class, else AttributeError (the value "missing")
GetAttr(data, attr) ==
    IF DictHas(data.attrs, attr) THEN DictGet(data.attrs, attr)
    ELSE IF DictHas(Class(data.cls).ns.items, attr)
         THEN DictGet(Class(data.cls).ns.items, attr)
    ELSE [t |-> "missing"]

RECURSIVE CollectLocal(_, _, _, _)
\* for attr, value in value_map.items()
CollectLocal(cls, value_map, instance_dummies, constraints) ==
    IF value_map = <<>> THEN [constraints |-> constraints, raised |-> ""]
    ELSE LET attr == Head(value_map).k
             value == Head(value_map).v
         IN IF ~Sympifiable(value)
            THEN [constraints |-> constraints, raised |-> "SympifyError"]
            ELSE IF ~DictHas(cls.ns.items, attr)
            THEN [constraints |-> constraints, raised |-> "AttributeError"]
            ELSE LET class_attr == DictGet(cls.ns.items, attr)
                 IN IF ~(IsBasic(class_attr) /\ DictHas(instance_dummies, SymOf(class_attr.e)))
                    THEN [constraints |-> constraints, raised |-> "KeyError"]
                    ELSE CollectLocal(cls, Tail(value_map), instance_dummies,
                            DictPut(constraints,
                                    DictGet(instance_dummies, SymOf(class_attr.e)),
                                    subs(simplify(value), instance_dummies)))

RECURSIVE CollectInstance(_, _, _, _, _)
\* for child_attr, class_dummy in model_cls._modello_namespace.dummies.items()
CollectInstance(todo, mapping, data, instance_dummies, constraints) ==
    IF todo = <<>> THEN [constraints |-> constraints, raised |-> ""]
    ELSE LET child_attr == Head(todo).k
             class_dummy == Head(todo).v
             val == GetAttr(data, child_attr)
         IN IF val.t = "missing"
            THEN [constraints |-> constraints, raised |-> "AttributeError"]
            ELSE IF ~Sympifiable(val)
            THEN [constraints |-> constraints, raised |-> "SympifyError"]
            ELSE CollectInstance(Tail(todo), mapping, data, instance_dummies,
                    DictPut(constraints,
                            DictGet(instance_dummies, DictGet(mapping, class_dummy)),
                            subs(simplify(val), instance_dummies)))

RECURSIVE CollectDict(_, _, _, _, _)
\* for key, val in data.items()
CollectDict(data, model_cls, mapping, instance_dummies, constraints) ==
    IF data = <<>> THEN [constraints |-> constraints, raised |-> ""]
    ELSE LET key == Head(data).k
             val == Head(data).v
         IN IF ~DictHas(model_cls.ns.dummies, key)
            THEN [constraints |-> constraints, raised |-> "KeyError"]
            ELSE IF ~Sympifiable(val)
            THEN [constraints |-> constraints, raised |-> "SympifyError"]
            ELSE CollectDict(Tail(data), model_cls, mapping, instance_dummies,
                    DictPut(constraints,
                            DictGet(instance_dummies,
                                    DictGet(mapping, DictGet(model_cls.ns.dummies, key))),
                            subs(simplify(val), instance_dummies)))

RECURSIVE CollectNested(_, _, _, _)
\* for attr, data in nested_values.items()
CollectNested(cls, nested_values, instance_dummies, constraints) ==
    IF nested_values = <<>> THEN [constraints |-> constraints, raised |-> ""]
    ELSE LET attr == Head(nested_values).k
             data == Head(nested_values).v
             nm == DictGet(cls.nested_models, attr)
             model_cls == Class(nm.cls)
             r == IF IsModello(data)
                  THEN CollectInstance(model_cls.ns.dummies, nm.map, data,
                                       instance_dummies, constraints)
                  ELSE CollectDict(data.d, model_cls, nm.map,
                                   instance_dummies, constraints)
         IN IF r.raised # "" THEN r
            ELSE CollectNested(cls, Tail(nested_values), instance_dummies, r.constraints)

\* Modello._collect_instance_constraints(value_map, nested_values, instance_dummies)
collect_instance_constraints(cls, value_map, nested_values, instance_dummies) ==
    LET r == CollectLocal(cls, value_map, instance_dummies, EmptyDict)
    IN IF r.raised # "" THEN r
       ELSE CollectNested(cls, nested_values, instance_dummies, r.constraints)

\* sympy.Eq(lhs, rhs) of a symbol and an expression
Eq(lhs, rhs) == [lhs |-> Sym(lhs), rhs |-> rhs]

RECURSIVE NestedConstraints(_, _)
\* the loop of _build_constraints over cls._modello_nested_models
NestedConstraints(nested, instance_dummies) ==
    IF nested = <<>> THEN <<>>
    ELSE LET mapping == Head(nested).v.map
             cc == Class(Head(nested).v.cls).class_constraints
         IN [i \in DOMAIN cc |->
                Eq(DictGet(instance_dummies, DictGet(mapping, cc[i].k)),
                   subs(subs(cc[i].v, mapping), instance_dummies))]
            \o NestedConstraints(Tail(nested), instance_dummies)

\* Modello._build_constraints(instance_dummies, instance_constraints)
build_constraints(cls, instance_dummies, instance_constraints) ==
    [i \in DOMAIN cls.class_constraints |->
        Eq(DictGet(instance_dummies, cls.class_constraints[i].k),
           subs(cls.class_constraints[i].v, instance_dummies))]
    \o NestedConstraints(cls.nested_models, instance_dummies)
    \o [i \in DOMAIN instance_constraints |->
        Eq(instance_constraints[i].k, instance_constraints[i].v)]

(***************************************************************************)
(* sympy.solve(constraints, particular=True, dict=True).                   *)
(*                                                                         *)
(* For a linear system sympy answers with no solution when the system is   *)
(* inconsistent and otherwise with one particular solution, which gives a  *)
(* number to every symbol of the system (minsolve_linear_system): the      *)
(* symbols the equations determine get the value they determine, and the   *)
(* remaining freedom is used up by sympy's choice.  Which symbols sympy    *)
(* regards as free is sympy's heuristic and is not modelled: any choice of  *)
(* free symbols is a possible answer.  sympy sets a symbol it is free to   *)
(* choose to 0 or to 1, or so that a symbol depending on it is 0, which is *)
(* the choice of that symbol as the free one.  For a system with a squared *)
(* symbol sympy answers with all its solutions.                            *)
(***************************************************************************)
\* the numbers sympy gives a symbol it is free to choose
FreeValues == {0, 1}

\* the values of determined symbols are searched in -SolverRange..SolverRange:
\* a formula of the classes below adds at most three attributes and 1
SolverRange == 1 + 3 * (MaxVal + 1)

EqSymbols(eq) == free_symbols(eq.lhs) \cup free_symbols(eq.rhs)

Symbols(constraints) == UNION {EqSymbols(constraints[i]) : i \in DOMAIN constraints}

IsLinear(constraints) ==
    \A i \in DOMAIN constraints :
        constraints[i].lhs.sq = NoTerms /\ constraints[i].rhs.sq = NoTerms

\* an equation all of whose symbols have a value, and which is false
Violated(eq, s) ==
    /\ EqSymbols(eq) \subseteq DOMAIN s
    /\ Eval(eq.lhs, s) # Eval(eq.rhs, s)

\* an equation that determines its one symbol without a value
Determines(eq, s) == Cardinality(EqSymbols(eq) \ DOMAIN s) = 1

RECURSIVE Solutions(_, _)
\* the assignments of numbers to all symbols of the system that extend s
\* and satisfy every equation
Solutions(constraints, s) ==
    LET todo == Symbols(constraints) \ DOMAIN s
        units == {i \in DOMAIN constraints : Determines(constraints[i], s)}
    IN IF \E i \in DOMAIN constraints : Violated(constraints[i], s) THEN {}
       ELSE IF todo = {} THEN {s}
       ELSE IF units # {}
       THEN LET eq == constraints[CHOOSE i \in units : TRUE]
                sym == CHOOSE d \in EqSymbols(eq) \ DOMAIN s : TRUE
            IN UNION {Solutions(constraints, s @@ (sym :> v)) :
                        v \in {w \in -SolverRange..SolverRange :
                                  ~Violated(eq, s @@ (sym :> w))}}
       ELSE UNION {Solutions(constraints, s @@ (sym :> v)) :
                     sym \in todo, v \in FreeValues}

\* the solution dict of an assignment of numbers
AsDict(s) == [d \in DOMAIN s |-> Num(s[d])]

\* the lists of solutions solve() can answer with, each as a set
solve(constraints) ==
    LET all == {AsDict(s) : s \in Solutions(constraints, NoTerms)}
    IN IF IsLinear(constraints)
       THEN IF all = {} THEN {{}} ELSE {{sol} : sol \in all}
       ELSE {all}

\* a _solve that raises only when there is no solution
AtLeastOne(solutions) == Cardinality(solutions) >= 1

\* len(solutions) != 1 is what makes _solve raise
ExactlyOne(solutions) == Cardinality(solutions) = 1

\* a chain that looks at the class-level formula first
LocalValueDerivedFirst(cls, class_dummy, solution, instance_dummies, instance_constraints) ==
    LET instance_dummy == DictGet(instance_dummies, class_dummy)
    IN IF DictHas(cls.class_constraints, class_dummy)
       THEN subs(DictGet(cls.class_constraints, class_dummy), instance_dummies)
       ELSE IF instance_dummy \in DOMAIN solution THEN solution[instance_dummy]
       ELSE IF DictHas(instance_constraints, instance_dummy)
       THEN DictGet(instance_constraints, instance_dummy)
       ELSE Sym(instance_dummy)

\* the precedence chain of _assign_local_values for one attribute
LocalValue(cls, class_dummy, solution, instance_dummies, instance_constraints) ==
    LET instance_dummy == DictGet(instance_dummies, class_dummy)
    IN IF instance_dummy \in DOMAIN solution THEN solution[instance_dummy]
       ELSE IF DictHas(instance_constraints, instance_dummy)
       THEN DictGet(instance_constraints, instance_dummy)
       ELSE IF DictHas(cls.class_constraints, class_dummy)
       THEN subs(DictGet(cls.class_constraints, class_dummy), instance_dummies)
       ELSE Sym(instance_dummy)

\* Modello._assign_local_values(solution, instance_dummies, instance_constraints)
assign_local_values(cls, solution, instance_dummies, instance_constraints) ==
    [i \in DOMAIN cls.ns.dummies |->
        [k |-> cls.ns.dummies[i].k,
         v |-> LocalValue(cls, cls.ns.dummies[i].v, solution,
                          instance_dummies, instance_constraints)]]

\* the precedence chain of _instantiate_nested_models for one child attribute
NestedValue(model_cls, mapping, class_dummy, solution, instance_dummies, instance_constraints) ==
    LET inst_dummy == DictGet(instance_dummies, DictGet(mapping, class_dummy))
    IN IF inst_dummy \in DOMAIN solution THEN solution[inst_dummy]
       ELSE IF DictHas(instance_constraints, inst_dummy)
       THEN DictGet(instance_constraints, inst_dummy)
       ELSE IF DictHas(model_cls.class_constraints, class_dummy)
       THEN subs(subs(DictGet(model_cls.class_constraints, class_dummy), mapping),
                 instance_dummies)
       ELSE Sym(inst_dummy)

\* value_kwargs of _instantiate_nested_models for the nested attribute attr
value_kwargs(cls, attr, solution, instance_dummies, instance_constraints) ==
    LET nm == DictGet(cls.nested_models, attr)
        model_cls == Class(nm.cls)
    IN [i \in DOMAIN model_cls.ns.dummies |->
          [k |-> model_cls.ns.dummies[i].k,
           v |-> PyBasic(NestedValue(model_cls, nm.map, model_cls.ns.dummies[i].v,
                                     solution, instance_dummies, instance_constraints))]]

(***************************************************************************)
(* The values a caller supplies.                                           *)
(***************************************************************************)
Keys(d) == [i \in DOMAIN d |-> d[i].k]

Numbers == {[v |-> PyInt(n), w |-> 1] : n \in 0..MaxVal}

RECURSIVE Maps(_, _, _)
\* the dicts that give some of `keys', in their order, one of the values
\* opts allows the key, and hold at most `budget' numbers
Maps(keys, budget, opts) ==
    IF keys = <<>> THEN {EmptyDict}
    ELSE Maps(Tail(keys), budget, opts)
         \cup UNION {{<<[k |-> Head(keys), v |-> o.v]>> \o m :
                        m \in Maps(Tail(keys), budget - o.w, opts)} :
                     o \in {p \in opts[Head(keys)] : p.w <= budget}}

\* the partial maps a caller can pass for a nested model of class model_cls
NestedDicts(model_cls) ==
    LET own == Keys(model_cls.ns.dummies)
        deeper == Keys(model_cls.nested_models)
        opts == [key \in DictKeys(model_cls.ns.dummies)
                         \cup DictKeys(model_cls.nested_models) |->
                    IF DictHas(model_cls.ns.dummies, key) THEN Numbers
                    ELSE {[v |-> PyDict(EmptyDict), w |-> 1]}]
    IN {[v |-> PyDict(m), w |-> Len(m)] : m \in Maps(own \o deeper, MaxSupplied, opts)}

\* the value maps a caller can pass to cls(name, **value_map)
ValueMaps(cls) ==
    LET opts == [key \in DictKeys(cls.ns.dummies) \cup DictKeys(cls.nested_models) |->
                    IF DictHas(cls.nested_models, key)
                    THEN NestedDicts(Class(DictGet(cls.nested_models, key).cls))
                         \cup {[v |-> PyNone, w |-> 0]}
                    ELSE Numbers]
    IN Maps(Keys(cls.nested_models) \o Keys(cls.ns.dummies), MaxSupplied, opts)

(***************************************************************************)
(* The state: the stack of running __init__ calls (a nested model is       *)
(* instantiated by a call inside its parent's), the global dummy counter,  *)
(* the running top-level call, the top-level calls that ended, and the     *)
(* log of the solves of the running top-level call.                        *)
(***************************************************************************)
VARIABLES stack, count, call, built, solves

\* the class statement that is being executed: its bases, its namespace now
\* and before its last declaration, that declaration and what it raised
VARIABLE body

vars == <<classes, stack, count, call, built, solves, body>>

NewBody ==
    [stage |-> "prepare", bases |-> <<>>,
     ns |-> NewNamespace("X"), before |-> NewNamespace("X"),
     decl |-> Decl("", Value(PyNone)), raised |-> "", n |-> 0,
     class_constraints |-> EmptyDict]

NoCall == [cls |-> "", name |-> "", value_map |-> EmptyDict]

\* the local variables of Modello.__init__(name, **value_map) at its start;
\* attr is the attribute the parent's call will set the instance on
Frame(cls, name, value_map, attr) ==
    [cls |-> cls, name |-> name, value_map |-> value_map, attr |-> attr,
     pc |-> "parse",
     nested_values |-> EmptyDict, local_values |-> EmptyDict,
     instance_dummies |-> EmptyDict, nested_dummy_map |-> EmptyDict,
     instance_constraints |-> EmptyDict, constraints |-> <<>>,
     solution |-> NoTerms, values |-> EmptyDict, nested_instances |-> EmptyDict]

Top == stack[Len(stack)]

Running(pc) == stack # <<>> /\ Top.pc = pc

SetTop(frame) == stack' = [stack EXCEPT ![Len(stack)] = frame]

\* an exception leaves every running __init__
Raised(exc) ==
    /\ stack' = <<>>
    /\ call' = NoCall
    /\ built' = Append(built, [call |-> call, result |-> [t |-> "raised", exc |-> exc]])

Init ==
    /\ \E lib \in {Library} :
          /\ classes = lib.module
          /\ count = lib.count
    /\ stack = <<>>
    /\ call = NoCall
    /\ built = <<>>
    /\ solves = <<>>
    /\ body = NewBody

\* a caller constructs cls("M", **value_map)
Construct ==
    /\ stack = <<>> /\ built = <<>>
    /\ \E cls \in ClassNames : \E value_map \in ValueMaps(Class(cls)) :
          \* sympy answers an under-determined system that is not linear with
          \* a parametric solution, which this algebra does not express
          /\ cls = "SquareModel" => value_map # EmptyDict
          /\ stack' = <<Frame(cls, "M", value_map, "")>>
          /\ call' = [cls |-> cls, name |-> "M", value_map |-> value_map]
    /\ solves' = <<>>
    /\ UNCHANGED <<classes, body, count, built>>

\* the instance of the first call is passed as the nested model of a second
ConstructAround ==
    /\ stack = <<>> /\ Len(built) = 1 /\ IsModello(built[1].result)
    /\ \E cls \in ClassNames : \E i \in DOMAIN Class(cls).nested_models :
          LET attr == Class(cls).nested_models[i].k
              value_map == <<[k |-> attr, v |-> built[1].result]>>
          IN /\ Class(cls).nested_models[i].v.cls = built[1].result.cls
             /\ \E more \in Maps(Keys(Class(cls).ns.dummies), MaxSupplied - 1,
                                 [key \in DictKeys(Class(cls).ns.dummies) |-> Numbers]) :
                   /\ stack' = <<Frame(cls, "P", value_map \o more, "")>>
                   /\ call' = [cls |-> cls, name |-> "P", value_map |-> value_map \o more]
    /\ solves' = <<>>
    /\ UNCHANGED <<classes, body, count, built>>

\* the values a call's value map holds for the nested attribute attr
Supplied(value_map, attr) ==
    IF DictHas(value_map, attr) /\ DictGet(value_map, attr).t = "dict"
    THEN DictGet(value_map, attr).d
    ELSE EmptyDict

\* after a call that was given a partial map for a nested model without
\* nested models of its own, the nested class is constructed on its own with
\* that map and the nested instance's name
ConstructAlone ==
    /\ stack = <<>> /\ Len(built) = 1 /\ IsModello(built[1].result)
    /\ \E i \in DOMAIN Class(built[1].call.cls).nested_models :
          LET nm == Class(built[1].call.cls).nested_models[i]
              name == built[1].call.name \o "_" \o nm.k
              value_map == Supplied(built[1].call.value_map, nm.k)
          IN /\ Class(nm.v.cls).nested_models = EmptyDict
             /\ ~(DictHas(built[1].call.value_map, nm.k)
                  /\ IsModello(DictGet(built[1].call.value_map, nm.k)))
             /\ stack' = <<Frame(nm.v.cls, name, value_map, "")>>
             /\ call' = [cls |-> nm.v.cls, name |-> name, value_map |-> value_map]
    /\ solves' = <<>>
    /\ UNCHANGED <<classes, body, count, built>>

\* nested_values, local_values = self._parse_nested_values(value_map)
ParseValues ==
    /\ Running("parse")
    /\ LET r == parse_nested_values(Class(Top.cls), Top.value_map, EmptyDict, EmptyDict)
       IN SetTop([Top EXCEPT !.nested_values = r.nested,
                             !.local_values = r.remaining,
                             !.pc = "bind"])
    /\ UNCHANGED <<classes, body, count, call, built, solves>>

\* instance_dummies, nested_dummy_map = self._create_instance_dummies(name)
Bind ==
    /\ Running("bind")
    /\ LET r == create_instance_dummies(Class(Top.cls), Top.name, count)
       IN /\ SetTop([Top EXCEPT !.instance_dummies = r.instance_dummies,
                                !.nested_dummy_map = r.nested_dummy_map,
                                !.pc = "collect"])
          /\ count' = r.count
    /\ UNCHANGED <<classes, body, call, built, solves>>

\* instance_constraints = self._collect_instance_constraints(...)
Collect ==
    /\ Running("collect")
    /\ LET r == collect_instance_constraints(Class(Top.cls), Top.local_values,
                                             Top.nested_values, Top.instance_dummies)
       IN IF r.raised # "" THEN Raised(r.raised)
          ELSE /\ SetTop([Top EXCEPT !.instance_constraints = r.constraints,
                                     !.pc = "build"])
               /\ UNCHANGED <<call, built>>
    /\ UNCHANGED <<classes, body, count, solves>>

\* constraints = self._build_constraints(instance_dummies, instance_constraints)
Assemble ==
    /\ Running("build")
    /\ SetTop([Top EXCEPT !.constraints =
                  build_constraints(Class(Top.cls), Top.instance_dummies,
                                    Top.instance_constraints),
                          !.pc = "solve"])
    /\ UNCHANGED <<classes, body, count, call, built, solves>>

\* solution = self._solve(constraints)
Solve ==
    /\ Running("solve")
    /\ IF Top.constraints = <<>>
       THEN /\ SetTop([Top EXCEPT !.solution = NoTerms, !.pc = "assign"])
            /\ solves' = Append(solves, [eqs |-> 0, solutions |-> 0])
            /\ UNCHANGED <<call, built>>
       ELSE \E solutions \in solve(Top.constraints) :
              /\ solves' = Append(solves, [eqs |-> Len(Top.constraints),
                                           solutions |-> Cardinality(solutions)])
              /\ IF ~ExactlyOne(solutions) THEN Raised("ValueError")
                 ELSE /\ SetTop([Top EXCEPT !.solution = CHOOSE sol \in solutions : TRUE,
                                            !.pc = "assign"])
                      /\ UNCHANGED <<call, built>>
    /\ UNCHANGED <<classes, body, count>>

\* values = self._assign_local_values(...); setattr(self, attr, val)
Assign ==
    /\ Running("assign")
    /\ SetTop([Top EXCEPT !.values =
                  assign_local_values(Class(Top.cls), Top.solution,
                                      Top.instance_dummies, Top.instance_constraints),
                          !.pc = "nested"])
    /\ UNCHANGED <<classes, body, count, call, built, solves>>

\* the nested attributes _instantiate_nested_models has not reached yet
Pending(frame) ==
    SelectSeq(Keys(Class(frame.cls).nested_models),
              LAMBDA attr : ~DictHas(frame.nested_instances, attr))

\* an __init__ that instantiates its nested models before it assigns its
\* local values
InstantiateBeforeAssign ==
    /\ Running("assign") /\ Pending(Top) # <<>>
    /\ LET attr == Head(Pending(Top))
           model_cls == DictGet(Class(Top.cls).nested_models, attr).cls
       IN stack' = Append(stack,
             Frame(model_cls, Top.name \o "_" \o attr,
                   value_kwargs(Class(Top.cls), attr, Top.solution,
                                Top.instance_dummies, Top.instance_constraints),
                   attr))
    /\ UNCHANGED <<classes, body, count, call, built, solves>>

\* _instantiate_nested_models: model_cls(f"{name}_{attr}", **value_kwargs)
InstantiateNested ==
    /\ Running("nested") /\ Pending(Top) # <<>>
    /\ LET attr == Head(Pending(Top))
           model_cls == DictGet(Class(Top.cls).nested_models, attr).cls
       IN stack' = Append(stack,
             Frame(model_cls, Top.name \o "_" \o attr,
                   value_kwargs(Class(Top.cls), attr, Top.solution,
                                Top.instance_dummies, Top.instance_constraints),
                   attr))
    /\ UNCHANGED <<classes, body, count, call, built, solves>>

\* the instance __init__ leaves behind: the local values, then the nested
\* instances, set as attributes
Finished(frame) ==
    Instance(frame.cls, frame.name,
             DictUpdate([i \in DOMAIN frame.values |->
                            [k |-> frame.values[i].k, v |-> PyBasic(frame.values[i].v)]],
                        frame.nested_instances),
             frame.instance_dummies, frame.instance_constraints, frame.constraints)

\* __init__ returns, to the parent's _instantiate_nested_models or to the caller
Return ==
    /\ Running("nested") /\ Pending(Top) = <<>>
    /\ IF Len(stack) = 1
       THEN /\ stack' = <<>>
            /\ call' = NoCall
            /\ built' = Append(built, [call |-> call, result |-> Finished(Top)])
       ELSE /\ stack' = [SubSeq(stack, 1, Len(stack) - 1) EXCEPT ![Len(stack) - 1] =
                           [@ EXCEPT !.nested_instances =
                               DictPut(@, Top.attr, Finished(Top))]]
            /\ UNCHANGED <<call, built>>
    /\ UNCHANGED <<classes, body, count, solves>>

Next ==
    \/ Construct
    \/ ConstructAround
    \/ ConstructAlone
    \/ ParseValues
    \/ Bind
    \/ Collect
    \/ Assemble
    \/ Solve
    \/ Assign
    \/ InstantiateNested
    \/ Return

Spec == Init /\ [][Next]_vars

(***************************************************************************)
(* The execution of one more class statement, `class X(bases): ...', in    *)
(* the module that declared the classes above: __prepare__ merges the      *)
(* bases, each declaration of the body goes through __setitem__, and       *)
(* ModelloMeta.__new__ creates the class.                                  *)
(***************************************************************************)
\* the classes X is derived from
BaseNames == {"ExampleClass", "ExampleA", "Holder", "Labelled"}

BaseLists ==
    {<<"Modello">>}
    \cup {<<b>> : b \in BaseNames}
    \cup {p \in BaseNames \X BaseNames : p[1] # p[2]}

\* the classes the body declares as nested models
NestedNames == {"ExampleClass", "ExampleA", "Child"}

\* the names the body assigns
DeclKeys == {"thing", "child"}

\* the names of the namespace a formula of the body can use
ExpressionNames(ns) == {k \in DictKeys(ns.dummies) : IsBasic(DictGet(ns.items, k))}

\* the declarations the body can make next
Declarations(ns) ==
    UNION {{Decl(key, v) :
              v \in {Fresh(key), Value(PyObj)}
                    \cup {Global(c) : c \in NestedNames}
                    \cup {Sum(<< <<k>> >>, 1) : k \in ExpressionNames(ns)}} :
           key \in DeclKeys}

\* ModelloMeta.__prepare__(name, bases), and the names Python assigns first
Prepare ==
    /\ body.stage = "prepare"
    /\ \E bases \in BaseLists :
          LET merged == MergeBases(NewNamespace("X"),
                                   [i \in DOMAIN bases |-> Class(bases[i])])
              r == ClassBody(merged, Preamble, count, classes)
          IN body' = [body EXCEPT !.stage = "body", !.bases = bases,
                                  !.ns = r.ns, !.before = r.ns]
    /\ UNCHANGED <<classes, stack, count, call, built, solves>>

\* one declaration `key = value' of the body
DeclareAttr ==
    /\ body.stage = "body" /\ body.raised = "" /\ body.n < MaxDecl
    /\ \E decl \in Declarations(body.ns) :
          LET r == Declare(body.ns, decl, count, classes)
          IN /\ body' = [body EXCEPT !.ns = r.ns, !.before = body.ns,
                                     !.decl = decl, !.raised = r.raised,
                                     !.n = @ + 1]
             /\ count' = r.count
    /\ UNCHANGED <<classes, stack, call, built, solves>>

\* ModelloMeta.__new__ at the end of the body
CreateClass ==
    /\ body.stage = "body" /\ body.raised = ""
    /\ body' = [body EXCEPT !.stage = "class",
                            !.class_constraints = class_constraints(body.ns)]
    /\ UNCHANGED <<classes, stack, count, call, built, solves>>

NextNS ==
    \/ Prepare
    \/ DeclareAttr
    \/ CreateClass

SpecNS == Init /\ [][NextNS]_vars
(***************************************************************************)
(* Properties of construction.                                             *)
(***************************************************************************)
\* the running __init__ calls whose local values are assigned
AssignedFrames == {i \in DOMAIN stack : stack[i].pc = "nested"}

\* the top-level calls that returned an instance
Returned == {i \in DOMAIN built : IsModello(built[i].result)}

\* the last top-level call that ended
LastBuilt == built[Len(built)]

\* the keys of a value map that name the attribute of class dummy d
SuppliedFor(cls, value_map, d) ==
    {k \in DictKeys(value_map) : DictHas(cls.ns.dummies, k)
                                  /\ DictGet(cls.ns.dummies, k) = d}

BadSolve(i) == solves[i].eqs > 0 /\ solves[i].solutions # 1

RECURSIVE CountInstances(_)
\* the instances of an instance tree
CountInstances(inst) ==
    LET nested == SelectSeq(inst.attrs, LAMBDA it : IsModello(it.v))
        Count[n \in 0..Len(nested)] ==
            IF n = 0 THEN 0 ELSE Count[n - 1] + CountInstances(nested[n].v)
    IN 1 + Count[Len(nested)]

\* C2: a solve that answers a non-empty equation list with zero or with several
\* solutions ends the whole top-level call with a ValueError and nothing is left
\* running; a call returns an instance only when every level of the instance
\* tree was solved and each solve had an empty equation list or one solution.
C2_AllOrNothing ==
    /\ \A i \in DOMAIN solves :
          BadSolve(i) => /\ i = Len(solves)
                         /\ stack = <<>>
                         /\ built # <<>>
                         /\ LastBuilt.result = [t |-> "raised", exc |-> "ValueError"]
    /\ (stack = <<>> /\ built # <<>> /\ IsModello(LastBuilt.result)) =>
          /\ \A i \in DOMAIN solves : ~BadSolve(i)
          /\ Len(solves) = CountInstances(LastBuilt.result)

\* a top-level call raised after a solve answered with several solutions
C2_Witness ==
    /\ stack = <<>> /\ built # <<>>
    /\ LastBuilt.result = [t |-> "raised", exc |-> "ValueError"]
    /\ solves # <<>> /\ solves[Len(solves)].solutions > 1

\* C3: on every constructed instance, a free-variable attribute (declared as
\* its own identity Variable) that the value map gives no value resolves to
\* its own Bound Variable.
C3_FreeStaysFree ==
    \A i \in Returned :
        LET inst == built[i].result
            cls == Class(inst.cls)
        IN \A j \in DOMAIN cls.ns.dummies :
              LET attr == cls.ns.dummies[j].k
                  d == cls.ns.dummies[j].v
              IN (/\ DictGet(cls.ns.attrs, attr) = Sym(d)
                  /\ SuppliedFor(cls, built[i].call.value_map, d) = {})
                 => DictGet(inst.attrs, attr)
                      = PyBasic(Sym(DictGet(inst.instance_dummies, d)))

\* C4: on every constructed instance, an attribute the caller supplied with a
\* number v resolves to simplify(v).
C4_SuppliedValueKept ==
    \A i \in Returned :
        LET inst == built[i].result
            value_map == built[i].call.value_map
        IN \A j \in DOMAIN value_map :
              value_map[j].v.t = "int"
              => DictGet(inst.attrs, value_map[j].k) = PyBasic(simplify(value_map[j].v))

\* the class statements with two bases that both give `attr' a dummy, and not
\* the same one
Diamonds ==
    {p \in {ClassStatements[i] : i \in DOMAIN ClassStatements} \X {"conflicted"} :
        /\ Len(p[1].bases) = 2
        /\ \A n \in 1..2 : DictHas(Class(p[1].bases[n]).ns.dummies, p[2])
        /\ DictGet(Class(p[1].bases[1]).ns.dummies, p[2])
             # DictGet(Class(p[1].bases[2]).ns.dummies, p[2])}

\* the formulas a base declares over its dummy d alone, as <<name, formula>>
FormulasOver(base, d) ==
    {<<base.ns.attrs[j].k, base.ns.attrs[j].v>> : j \in
        {j \in DOMAIN base.ns.attrs : free_symbols(base.ns.attrs[j].v) = {d}}}

\* a formula over the one symbol d, at the value `value'
At(formula, d, value) ==
    [c |-> formula.c + formula.lin[d] * value.c,
     lin |-> [x \in DOMAIN value.lin |-> formula.lin[d] * value.lin[x]],
     sq |-> NoTerms]

\* C5: a class with two bases that give the same attribute name distinct
\* identity Variables has the later base's Variable for it, not the earlier
\* base's, and on every instance of the class each formula either base
\* declares over that attribute resolves to the formula's value at the resolved
\* value of the attribute (a formula that is the attribute resolves to the
\* attribute's value).
C5_Diamond ==
    \A p \in Diamonds :
        LET cls == Class(p[1].name)
            earlier == Class(p[1].bases[1])
            later == Class(p[1].bases[2])
        IN /\ DictGet(cls.ns.dummies, p[2]) = DictGet(later.ns.dummies, p[2])
           /\ DictGet(cls.ns.dummies, p[2]) # DictGet(earlier.ns.dummies, p[2])
           /\ \A i \in Returned :
                 built[i].result.cls = p[1].name =>
                    \A base \in {earlier, later} :
                       \A f \in FormulasOver(base, DictGet(base.ns.dummies, p[2])) :
                          DictGet(built[i].result.attrs, f[1]).e
                            = At(f[2], DictGet(base.ns.dummies, p[2]),
                                 DictGet(built[i].result.attrs, p[2]).e)

\* an instance of the class with the two bases, on which the alias of the
\* earlier base and the formula of the later one are resolved
C5_Witness ==
    \E i \in Returned :
        /\ built[i].result.cls = "ExampleC"
        /\ <<Modello, "conflicted">> \notin Diamonds
        /\ <<ExampleC, "conflicted">> \in Diamonds
        /\ DictGet(built[i].result.attrs, "a") = DictGet(built[i].result.attrs, "conflicted")
        /\ DictGet(built[i].result.attrs, "b1") # DictGet(built[i].result.attrs, "conflicted")

\* an expression with its symbols named, whichever dummy bears the name
ByName(e) ==
    [c |-> e.c,
     lin |-> {<<d.name, e.lin[d]>> : d \in DOMAIN e.lin},
     sq |-> {<<d.name, e.sq[d]>> : d \in DOMAIN e.sq}]

\* the second top-level call constructed, on its own, the class nested as attr
\* in the first
AloneFor(attr) ==
    /\ Len(built) = 2
    /\ Returned = {1, 2}
    /\ DictHas(Class(built[1].call.cls).nested_models, attr)
    /\ built[2].call.name = built[1].call.name \o "_" \o attr

\* C6: a child attribute the partial map of a nested model does not name
\* resolves on the parent's nested instance as it does on the child class
\* constructed standalone, under the name of the nested instance, with the
\* values of the partial map.
C6_NestedAsStandalone ==
    \A attr \in {"child", "left"} :
        AloneFor(attr) =>
            LET nested == DictGet(built[1].result.attrs, attr)
                alone == built[2].result
            IN \A k \in DictKeys(Class(alone.cls).ns.dummies)
                        \ DictKeys(built[2].call.value_map) :
                  ByName(DictGet(nested.attrs, k).e) = ByName(DictGet(alone.attrs, k).e)

\* the second top-level call was given the instance the first returned as the
\* nested model attr
AroundFor(attr) ==
    /\ Len(built) = 2
    /\ Returned = {1, 2}
    /\ DictHas(built[2].call.value_map, attr)
    /\ DictGet(built[2].call.value_map, attr) = built[1].result

\* C7: when an instance s of the nested class is passed as the nested model,
\* each attribute of the parent's child instance resolves to s's value of it.
C7_SiblingPreserved ==
    \A attr \in {"child", "left"} :
        AroundFor(attr) =>
            LET s == built[1].result
                child == DictGet(built[2].result.attrs, attr)
            IN \A k \in DictKeys(Class(s.cls).ns.dummies) :
                  DictGet(child.attrs, k) = DictGet(s.attrs, k)

\* C8: when the owner of a nested model is wrapped by one more level that is
\* given the owner as a pre-built instance, every attribute of the owner's
\* nested model (the grandchild of the wrapping instance) resolves as on the
\* owner constructed directly.
C8_GrandchildPreserved ==
    \A attr \in {"child", "left"} :
        AroundFor(attr) =>
            LET owner == built[1].result
                wrapped == DictGet(built[2].result.attrs, attr)
            IN \A g \in DictKeys(Class(owner.cls).nested_models) :
                  \A k \in DictKeys(Class(DictGet(owner.attrs, g).cls).ns.dummies) :
                      DictGet(DictGet(wrapped.attrs, g).attrs, k)
                        = DictGet(DictGet(owner.attrs, g).attrs, k)

(***************************************************************************)
(* Properties of the class statement.                                      *)
(***************************************************************************)
\* the last declaration assigned a value that is not an expression
DeclaredOther == body.n > 0 /\ body.decl.v.d \in {"value", "global"}

\* C9: a declaration that assigns a value that is not an Expression (an opaque
\* value or a model class) to a key that denotes an Expression attribute,
\* inherited or declared earlier in the body, raises ValueError and leaves
\* attrs, dummies, other_attrs and nested_models of the namespace as they were.
C9_NoDowngrade ==
    (DeclaredOther /\ DictHas(body.before.attrs, body.decl.key)) =>
        /\ body.raised = "ValueError"
        /\ body.ns.attrs = body.before.attrs
        /\ body.ns.dummies = body.before.dummies
        /\ body.ns.other_attrs = body.before.other_attrs
        /\ body.ns.nested_models = body.before.nested_models

\* a model class was assigned to a name a base declares as an expression, after
\* a declaration of the body that did not raise
C9_Witness ==
    /\ body.n > 1
    /\ body.decl.v.d = "global"
    /\ body.raised = "ValueError"
    /\ DictHas(Class(body.bases[1]).ns.attrs, body.decl.key)
    /\ body.ns.attrs # EmptyDict

\* the names of Expression attributes, of opaque values and of nested models
ExpressionKeys(ns) == DictKeys(ns.attrs) \cup DictKeys(ns.dummies)
OtherKeys(ns) == DictKeys(ns.other_attrs)
NestedKeys(ns) == DictKeys(ns.nested_models)

BasesDisagree(key) ==
    \E i, j \in DOMAIN body.bases :
        /\ i # j
        /\ DictHas(Class(body.bases[i]).ns.attrs, key)
        /\ DictHas(Class(body.bases[j]).ns.other_attrs, key)

StageOrder == <<"parse", "bind", "collect", "build", "solve", "assign", "nested">>

Rank(pc) == CHOOSE n \in DOMAIN StageOrder : StageOrder[n] = pc

\* the running __init__ calls that are past the position pc
Past(pc) == {i \in DOMAIN stack : Rank(stack[i].pc) > Rank(pc)}

\* C11: in every __init__ that has bound its dummies, no two distinct Bound
\* Variables of the bound-variable map (the bound identity Variables and the
\* bound proxy Variables of the nested declarations) have the same name.
C11_UniqueNames ==
    \A i \in Past("bind") :
        LET m == stack[i].instance_dummies
        IN \A j, k \in DOMAIN m : m[j].v.name = m[k].v.name => m[j].v = m[k].v

\* the calls below the running one wait in _instantiate_nested_models, solved
\* and with their local values assigned, and the step leaves them as they are
ParentsWait(n) ==
    \A i \in 1..n :
        /\ stack'[i].pc = "nested" /\ stack[i].pc = "nested"
        /\ DictKeys(stack[i].values) = DictKeys(Class(stack[i].cls).ns.dummies)
        /\ stack'[i].values = stack[i].values
        /\ stack'[i].solution = stack[i].solution

\* what one step does to the running __init__ calls
StageStep ==
    \/ \* a call starts: a caller's, or a nested model's from inside its parent
       /\ Len(stack') = Len(stack) + 1
       /\ stack'[Len(stack')].pc = "parse"
       /\ ParentsWait(Len(stack))
    \/ \* the running call moves on to its next stage
       /\ Len(stack') = Len(stack) /\ stack # <<>>
       /\ Rank(stack'[Len(stack)].pc) = Rank(Top.pc) + 1
       /\ stack'[Len(stack)].name = Top.name
       /\ ParentsWait(Len(stack) - 1)
    \/ \* the running call returns after its last stage
       /\ Len(stack') = Len(stack) - 1 /\ stack # <<>>
       /\ Top.pc = "nested"
       /\ ParentsWait(Len(stack'))
    \/ \* an exception leaves every running call
       /\ stack # <<>> /\ stack' = <<>>
       /\ built'[Len(built')].result.t = "raised"

\* C12: every __init__ call goes through Parse-values, Bind, Collect,
\* Assemble, Solve, Assign-local-values and Instantiate-nested in that order,
\* one stage per step and never back; a nested model's call starts at
\* Parse-values only when every call below it has solved and assigned its
\* local values, and these stay as they are while the nested call runs.
C12_Sequential == [][StageStep]_vars

\* a nested model of a nested model went through all its stages while the two
\* calls below it wait with their values assigned
C12_Witness ==
    /\ Len(stack) = 3
    /\ \A i \in DOMAIN stack : stack[i].pc = "nested"
    /\ stack[1].values # EmptyDict /\ stack[2].values # EmptyDict
    /\ Top.name = "M_left_child"

\* C13: _parse_nested_values puts every key of the caller's value map in
\* exactly one of its two results: in the nested one when the key names a
\* nested declaration of the class, in the local one otherwise; a nested value
\* that is a model instance or a dict is kept as it is, any other nested value
\* (None included) becomes the empty dict, and a local value is kept as it is.
C13_Partition ==
    \A i \in Past("parse") :
        LET f == stack[i]
            declared == DictKeys(Class(f.cls).nested_models)
        IN /\ DictKeys(f.nested_values) = DictKeys(f.value_map) \cap declared
           /\ DictKeys(f.local_values) = DictKeys(f.value_map) \ declared
           /\ \A k \in DictKeys(f.nested_values) :
                 LET val == DictGet(f.value_map, k)
                 IN DictGet(f.nested_values, k)
                      = IF val.t \in {"inst", "dict"} THEN val ELSE PyDict(EmptyDict)
           /\ \A k \in DictKeys(f.local_values) :
                 DictGet(f.local_values, k) = DictGet(f.value_map, k)

\* a value map was parsed that gives a nested model None and another key a
\* number: the nested result holds the empty dict, the local one the number
C13_Witness ==
    \E i \in Past("parse") :
        LET f == stack[i]
        IN /\ f.local_values # EmptyDict
           /\ \E k \in DictKeys(f.nested_values) :
                 /\ DictGet(f.value_map, k) = PyNone
                 /\ DictGet(f.nested_values, k) = PyDict(EmptyDict)

\* the value a supplied value is recorded as: simplify(value).subs(instance_dummies)
Normalized(f, value) == subs(simplify(value), f.instance_dummies)

\* C14: in every __init__ past Collect, the constraint map holds for every
\* supplied local key k the normalized value of k under the Bound Variable of
\* k's identity Variable, and for every key c of a dict supplied for a nested
\* model the normalized value of c under the Bound Variable of the proxy of c's
\* identity Variable: no supplied value is replaced by another key's value.
C14_ConstraintKeysUnique ==
    \A i \in Past("collect") :
        LET f == stack[i]
            cls == Class(f.cls)
        IN /\ \A k \in DictKeys(f.local_values) :
                 LET bv == DictGet(f.instance_dummies, DictGet(cls.ns.dummies, k))
                 IN /\ DictHas(f.instance_constraints, bv)
                    /\ DictGet(f.instance_constraints, bv)
                         = Normalized(f, DictGet(f.local_values, k))
           /\ \A n \in DictKeys(f.nested_values) :
                 LET data == DictGet(f.nested_values, n)
                     nm == DictGet(cls.nested_models, n)
                 IN data.t = "dict" =>
                      \A c \in DictKeys(data.d) :
                         LET d == DictGet(Class(nm.cls).ns.dummies, c)
                             bv == DictGet(f.instance_dummies, DictGet(nm.map, d))
                         IN /\ DictHas(f.instance_constraints, bv)
                            /\ DictGet(f.instance_constraints, bv)
                                 = Normalized(f, DictGet(data.d, c))

\* dummy is a Bound Variable named after the instance and the Variable v
BoundAs(dummy, name, v) == dummy.bound /\ dummy.name = name \o "_" \o v.name

\* C15: in every __init__ past Bind, called with the instance name n, the
\* bound-variable map gives every identity Variable d of the class a Bound
\* Variable named n_ and d's name, and every proxy Variable p of every nested
\* declaration a Bound Variable named n_ and p's name; the sub-map of each
\* nested attribute has the keys of the declaration's Proxy Map, and for each
\* of them sub[attr][d] is the Bound Variable bound[ProxyMap[attr][d]].
C15_Binder ==
    \A i \in Past("bind") :
        LET f == stack[i]
            cls == Class(f.cls)
        IN /\ \A j \in DOMAIN cls.ns.dummies :
                 LET d == cls.ns.dummies[j].v
                 IN /\ DictHas(f.instance_dummies, d)
                    /\ BoundAs(DictGet(f.instance_dummies, d), f.name, d)
           /\ DictKeys(f.nested_dummy_map) = DictKeys(cls.nested_models)
           /\ \A j \in DOMAIN cls.nested_models :
                 LET attr == cls.nested_models[j].k
                     ProxyMap == cls.nested_models[j].v.map
                     sub == DictGet(f.nested_dummy_map, attr)
                 IN /\ DictKeys(sub) = DictKeys(ProxyMap)
                    /\ \A d \in DictKeys(ProxyMap) :
                          LET p == DictGet(ProxyMap, d)
                          IN /\ DictHas(f.instance_dummies, p)
                             /\ BoundAs(DictGet(f.instance_dummies, p), f.name, p)
                             /\ DictGet(sub, d) = DictGet(f.instance_dummies, p)

\* the nested instance M_left of a Tree bound its own dummies and the proxies
\* of its nested model under its own name, while Tree had bound the proxies of
\* the same declaration under the name M
C15_Witness ==
    /\ Len(stack) = 2 /\ 2 \in Past("bind")
    /\ stack[1].cls = "Tree" /\ stack[2].name = "M_left"
    /\ \E j \in DOMAIN stack[2].instance_dummies :
          stack[2].instance_dummies[j].v.name = "M_left_child_a"
    /\ \E j \in DOMAIN stack[1].instance_dummies :
          stack[1].instance_dummies[j].v.name = "M_left_child_a"

\* the derived attributes of a class, in the order of their declaration: those
\* whose formula is not their own identity Variable
DerivedAttrs(cls) ==
    SelectSeq(cls.ns.dummies, LAMBDA it : DictGet(cls.ns.attrs, it.k) # Sym(it.v))

\* one equation per derived attribute of the class
OwnEquations(f) ==
    LET cls == Class(f.cls)
        derived == DerivedAttrs(cls)
    IN [j \in DOMAIN derived |->
          Eq(DictGet(f.instance_dummies, derived[j].v),
             subs(DictGet(cls.ns.attrs, derived[j].k), f.instance_dummies))]

RECURSIVE ChildEquations(_, _)
\* one equation per derived attribute of the class of each nested declaration,
\* by child identity -> proxy Variable -> bound proxy Variable
ChildEquations(f, nested) ==
    IF nested = <<>> THEN <<>>
    ELSE LET child == Class(Head(nested).v.cls)
             ProxyMap == Head(nested).v.map
             sub == DictGet(f.nested_dummy_map, Head(nested).k)
             derived == DerivedAttrs(child)
         IN [j \in DOMAIN derived |->
               Eq(DictGet(sub, derived[j].v),
                  subs(subs(DictGet(child.ns.attrs, derived[j].k), ProxyMap),
                       f.instance_dummies))]
            \o ChildEquations(f, Tail(nested))

\* one equation per recorded instance constraint
SuppliedEquations(f) ==
    [j \in DOMAIN f.instance_constraints |->
        Eq(f.instance_constraints[j].k, f.instance_constraints[j].v)]

\* C16: in every __init__ past Assemble the equation list is, in this order:
\* one equation per derived attribute of the class, one per derived attribute
\* of the class of each nested declaration (by the two-stage substitution),
\* one per instance constraint, and nothing else; with an empty list the
\* solution is the empty map and the solver is not called.
C16_EquationList ==
    /\ \A i \in Past("build") :
          stack[i].constraints
            = OwnEquations(stack[i])
              \o ChildEquations(stack[i], Class(stack[i].cls).nested_models)
              \o SuppliedEquations(stack[i])
    /\ \A i \in Past("solve") :
          stack[i].constraints = <<>> => stack[i].solution = NoTerms
    /\ \A j \in DOMAIN solves : solves[j].eqs = 0 => solves[j].solutions = 0

(***************************************************************************)
(* Properties of the declaration of a nested model.                        *)
(***************************************************************************)
\* the last declaration of the body assigned a model class, without a raise
DeclaredNested == body.n > 0 /\ body.raised = "" /\ body.decl.v.d = "global"

\* the class the last declaration assigned
NestedClass == Class(body.decl.v.name)

\* the proxy object the body finds under the key of the last declaration
ExposedProxy == DictGet(body.ns.items, body.decl.key)

\* the Variables that exist before the last declaration
KnownVariables ==
    UNION {{classes[c].ns.dummies[j].v : j \in DOMAIN classes[c].ns.dummies} :
           c \in DOMAIN classes}
    \cup {body.before.dummies[j].v : j \in DOMAIN body.before.dummies}

\* C17: after `key = NestedClass' nested_models[key] holds NestedClass and a
\* Proxy Map that gives every identity Variable of NestedClass a fresh
\* Variable named key_ and the name of the identity Variable, and for every
\* attribute name of NestedClass the proxy the body sees under key holds,
\* under that name, the Proxy Map's image of the attribute's identity Variable.
C17_ProxyMap ==
    DeclaredNested =>
        /\ DictHas(body.ns.nested_models, body.decl.key)
        /\ LET nm == DictGet(body.ns.nested_models, body.decl.key)
           IN /\ nm.cls = NestedClass.name
              /\ \A j \in DOMAIN NestedClass.ns.dummies :
                    LET attr_name == NestedClass.ns.dummies[j].k
                        d == NestedClass.ns.dummies[j].v
                    IN /\ DictHas(nm.map, d)
                       /\ DictGet(nm.map, d).name = body.decl.key \o "_" \o d.name
                       /\ ~DictGet(nm.map, d).bound
                       /\ DictGet(nm.map, d) \notin KnownVariables
                       /\ DictHas(ExposedProxy.attrs, attr_name)
                       /\ DictGet(ExposedProxy.attrs, attr_name) = Sym(DictGet(nm.map, d))

\* C18: after `key = NestedClass' the proxy the body sees under key holds, for
\* every derived attribute of NestedClass, a copy of the attribute's formula
\* with the Variables of NestedClass replaced by the proxy Variables of the
\* new Proxy Map.
C18_DerivedCopies ==
    DeclaredNested =>
        LET nm == DictGet(body.ns.nested_models, body.decl.key)
            derived == DerivedAttrs(NestedClass)
        IN \A j \in DOMAIN derived :
              DictGet(ExposedProxy.attrs, derived[j].k)
                = subs(DictGet(NestedClass.ns.attrs, derived[j].k), nm.map)

(***************************************************************************)
(* Properties of the Variables an instance mentions.                       *)
(***************************************************************************)
\* the expression mentions Bound Variables only
OnlyBound(e) == \A d \in free_symbols(e) : d.bound

\* C19: in every __init__ the equations assembled for the instance and the
\* values its attributes resolve to mention Bound Variables only: no identity
\* Variable of a class and no proxy Variable of a class body appears in them.
\* (The nested instances are constructed by __init__ calls of their own.)
C19_OnlyBoundVariables ==
    /\ \A i \in Past("build") :
          \A j \in DOMAIN stack[i].constraints :
             /\ OnlyBound(stack[i].constraints[j].lhs)
             /\ OnlyBound(stack[i].constraints[j].rhs)
    /\ \A i \in Past("assign") :
          \A j \in DOMAIN stack[i].values : OnlyBound(stack[i].values[j].v)
====
